---- MODULE Spec2Model ----
(***************************************************************************)
(* Model of the uapi-version crate: the Version wrapper and the version    *)
(* comparison function strverscmp (src/src/lib.rs).                        *)
(*                                                                         *)
(* A string is a sequence of characters, a character a one-character TLA+  *)
(* string.  Option<char> is a character or None.  A Peekable<Chars> over a *)
(* string s is the number i of characters already taken from it.           *)
(***************************************************************************)
EXTENDS Integers, Sequences, FiniteSets

VARIABLES a, b, li, ri, left, right, lstart, rstart, step, pc, result

vars == <<a, b, li, ri, left, right, lstart, rstart, step, pc, result>>

\* Longest input string explored.
MaxLen == 3

(***************************************************************************)
(* Characters                                                              *)
(***************************************************************************)

None == ""

\* The ASCII characters the comparison can tell apart, and '_' for
\* the invalid ones, in code order.
AsciiOrder ==
    << "-", ".", "0", "1", "2", "3", "4", "5", "6", "7", "8", "9",
       "A", "B", "C", "D", "E", "F", "G", "H", "I", "J", "K", "L", "M",
       "N", "O", "P", "Q", "R", "S", "T", "U", "V", "W", "X", "Y", "Z",
       "^", "_",
       "a", "b", "c", "d", "e", "f", "g", "h", "i", "j", "k", "l", "m",
       "n", "o", "p", "q", "r", "s", "t", "u", "v", "w", "x", "y", "z",
       "~" >>

\* Rank of a character in code order (char's Ord).
CharRank == [c \in {AsciiOrder[i] : i \in 1..Len(AsciiOrder)} |->
                CHOOSE i \in 1..Len(AsciiOrder) : AsciiOrder[i] = c]

is_ascii_digit(c) == c \in {"0", "1", "2", "3", "4", "5", "6", "7", "8", "9"}

is_ascii_alphabetic(c) ==
    c \in {"A", "B", "C", "D", "E", "F", "G", "H", "I", "J", "K", "L", "M",
           "N", "O", "P", "Q", "R", "S", "T", "U", "V", "W", "X", "Y", "Z",
           "a", "b", "c", "d", "e", "f", "g", "h", "i", "j", "k", "l", "m",
           "n", "o", "p", "q", "r", "s", "t", "u", "v", "w", "x", "y", "z"}

is_valid_version_char(c) ==
    is_ascii_digit(c) \/ is_ascii_alphabetic(c) \/ c \in {"~", "-", "^", "."}

(***************************************************************************)
(* Orderings                                                               *)
(***************************************************************************)

Ordering == {"Less", "Equal", "Greater"}

\* usize::cmp
CmpNat(m, n) == IF m < n THEN "Less" ELSE IF m > n THEN "Greater" ELSE "Equal"

\* bool::cmp, false < true
CmpBool(p, q) == IF p = q THEN "Equal" ELSE IF q THEN "Less" ELSE "Greater"

\* CmpOpt, but step 3 returns only an unequal ordering, as steps 2 and 4..6
\* do: with both sides exhausted the loop goes on.
CmpOpt_unequal_only(l, r) ==
    IF l = None /\ r = None THEN "Continue"
    ELSE IF l = None THEN "Less"
    ELSE IF r = None THEN "Greater"
    ELSE CmpNat(CharRank[l], CharRank[r])

\* Option<char>::cmp, None < Some(_), Some by code
CmpOpt(l, r) ==
    IF l = None /\ r = None THEN "Equal"
    ELSE IF l = None THEN "Less"
    ELSE IF r = None THEN "Greater"
    ELSE CmpNat(CharRank[l], CharRank[r])

RECURSIVE CmpStr(_, _)
\* String::cmp, lexicographic by character code
CmpStr(s, t) ==
    IF s = <<>> /\ t = <<>> THEN "Equal"
    ELSE IF s = <<>> THEN "Less"
    ELSE IF t = <<>> THEN "Greater"
    ELSE IF Head(s) # Head(t) THEN CmpNat(CharRank[Head(s)], CharRank[Head(t)])
    ELSE CmpStr(Tail(s), Tail(t))

(***************************************************************************)
(* Peekable<Chars>                                                         *)
(***************************************************************************)

\* iter.next(): the character taken (or None) and the iterator afterwards
IterNext(s, i) ==
    IF i < Len(s) THEN [c |-> s[i + 1], i |-> i + 1] ELSE [c |-> None, i |-> i]

\* iter.peek()
IterPeek(s, i) == IF i < Len(s) THEN s[i + 1] ELSE None

(***************************************************************************)
(* strverscmp, one outer-loop iteration                                    *)
(***************************************************************************)

\* SkipInvalid, but with an `if` for the `while`: at most one invalid
\* character is skipped.
SkipInvalid_once(s, c, i) ==
    IF c # None /\ ~is_valid_version_char(c)
    THEN LET n == IterNext(s, i) IN [c |-> n.c, i |-> n.i]
    ELSE [c |-> c, i |-> i]

RECURSIVE SkipInvalid(_, _, _)
\* Step 1: while c.is_some() && !c.is_some_and(is_valid_version_char)
SkipInvalid(s, c, i) ==
    IF c # None /\ ~is_valid_version_char(c)
    THEN LET n == IterNext(s, i) IN SkipInvalid(s, n.c, n.i)
    ELSE [c |-> c, i |-> i]

\* compare_special_char, but looking at the left side only.
compare_special_char_left_only(char, l, r) ==
    LET left_bool == ~(l # None /\ l = char)
    IN  CmpBool(left_bool, TRUE)

compare_special_char(char, l, r) ==
    LET left_bool  == ~(l # None /\ l = char)
        right_bool == ~(r # None /\ r = char)
    IN CmpBool(left_bool, right_bool)

\* SkipZeros, but leading zeros are kept in the run.
SkipZeros_kept(s, c, i) == [c |-> c, i |-> i]

RECURSIVE SkipZeros(_, _, _)
\* Step 7: while c.is_some_and(|c| c == '0') { c = iter.next(); }
SkipZeros(s, c, i) ==
    IF c = "0"
    THEN LET n == IterNext(s, i) IN SkipZeros(s, n.c, n.i)
    ELSE [c |-> c, i |-> i]

RECURSIVE DigitPrefix(_, _, _, _)
\* Step 7: the loop that fills *_digit_prefix
DigitPrefix(s, c, i, acc) ==
    IF ~is_ascii_digit(c) THEN [prefix |-> acc, c |-> c, i |-> i]
    ELSE IF ~is_ascii_digit(IterPeek(s, i))
         THEN [prefix |-> Append(acc, c), c |-> c, i |-> i]
         ELSE LET n == IterNext(s, i) IN DigitPrefix(s, n.c, n.i, Append(acc, c))

RECURSIVE AlphaPrefix(_, _, _, _)
\* Step 8: the loop that fills *_alpha_prefix
AlphaPrefix(s, c, i, acc) ==
    IF ~is_ascii_alphabetic(c) THEN [prefix |-> acc, c |-> c, i |-> i]
    ELSE IF ~is_ascii_alphabetic(IterPeek(s, i))
         THEN [prefix |-> Append(acc, c), c |-> c, i |-> i]
         ELSE LET n == IterNext(s, i) IN AlphaPrefix(s, n.c, n.i, Append(acc, c))

\* What one iteration of the loop does from iterator positions i (left) and
\* j (right): the step that ends it, the Ordering it returns ("Continue":
\* it falls through to the next iteration), the iterators and the current
\* characters afterwards, and the iterators as steps 2..8 found them.
Iteration(x, y, i, j) ==
    LET l0 == IterNext(x, i)
        r0 == IterNext(y, j)
        l1 == SkipInvalid(x, l0.c, l0.i)
        r1 == SkipInvalid(y, r0.c, r0.i)
        l  == l1.c
        r  == r1.c
        Out(st, o, lc, rc) ==
            [step |-> st, ret |-> o, li |-> lc.i, ri |-> rc.i,
             left |-> lc.c, right |-> rc.c, lstart |-> l1.i, rstart |-> r1.i]
        tilde == compare_special_char("~", l, r)
        dash  == compare_special_char("-", l, r)
        caret == compare_special_char("^", l, r)
        dot   == compare_special_char(".", l, r)
    IN  IF (l = "~" \/ r = "~") /\ tilde # "Equal" THEN Out(2, tilde, l1, r1)
        ELSE IF l = None \/ r = None THEN Out(3, CmpOpt(l, r), l1, r1)
        ELSE IF (l = "-" \/ r = "-") /\ dash # "Equal" THEN Out(4, dash, l1, r1)
        ELSE IF (l = "^" \/ r = "^") /\ caret # "Equal" THEN Out(5, caret, l1, r1)
        ELSE IF (l = "." \/ r = ".") /\ dot # "Equal" THEN Out(6, dot, l1, r1)
        ELSE IF is_ascii_digit(l) \/ is_ascii_digit(r)
        THEN LET lz == SkipZeros(x, l, l1.i)
                 rz == SkipZeros(y, r, r1.i)
                 lp == DigitPrefix(x, lz.c, lz.i, <<>>)
                 rp == DigitPrefix(y, rz.c, rz.i, <<>>)
                 o  == CmpStr(lp.prefix, rp.prefix)
             IN  IF Len(lp.prefix) # Len(rp.prefix)
                 THEN Out(7, CmpNat(Len(lp.prefix), Len(rp.prefix)), lp, rp)
                 ELSE IF o # "Equal" THEN Out(7, o, lp, rp)
                 ELSE Out(7, "Continue", lp, rp)
        ELSE LET lp == AlphaPrefix(x, l, l1.i, <<>>)
                 rp == AlphaPrefix(y, r, r1.i, <<>>)
                 o  == CmpStr(lp.prefix, rp.prefix)
             IN  IF o # "Equal" THEN Out(8, o, lp, rp)
                 ELSE Out(8, "Continue", lp, rp)

RECURSIVE Loop(_, _, _, _)
Loop(x, y, i, j) ==
    LET it == Iteration(x, y, i, j)
    IN  IF it.ret = "Continue" THEN Loop(x, y, it.li, it.ri) ELSE it.ret

strverscmp(x, y) == Loop(x, y, 0, 0)

(***************************************************************************)
(* Version                                                                 *)
(***************************************************************************)

\* #[derive(PartialEq, Eq)] on struct Version(String): equality of the
\* stored strings
Version_eq(v, w) == v = w

\* impl Ord for Version
Version_cmp(v, w) == strverscmp(v, w)

(***************************************************************************)
(* Inputs                                                                  *)
(***************************************************************************)

RECURSIVE StringsOver(_, _)
StringsOver(cs, n) ==
    IF n = 0 THEN {<<>>}
    ELSE LET shorter == StringsOver(cs, n - 1)
         IN  shorter \cup {Append(s, c) : s \in shorter, c \in cs}

\* The character sets the two inputs of one comparison are drawn from.
Alphabets ==
    { {"0", "1", "."},
      {"0", "a", "b"},
      {"0", "a", "_", "~"},
      {"1", "a", "_", "."},
      {"0", "-", "^", "."},
      {"a", "-", "^"} }

Inputs == UNION {StringsOver(cs, MaxLen) : cs \in Alphabets}

(***************************************************************************)
(* The comparison as a state machine: one action per step that can end an  *)
(* iteration of the loop.                                                  *)
(***************************************************************************)

Init ==
    /\ \E cs \in Alphabets :
          /\ a \in StringsOver(cs, MaxLen)
          /\ b \in StringsOver(cs, MaxLen)
    /\ li = 0
    /\ ri = 0
    /\ left = None
    /\ right = None
    /\ lstart = 0
    /\ rstart = 0
    /\ step = 0
    /\ pc = "loop"
    /\ result = "None"

\* The loop takes the outcome it of an iteration: the iterators and current
\* characters move on, and the function returns unless it falls through.
Iterate(it) ==
    /\ li' = it.li
    /\ ri' = it.ri
    /\ left' = it.left
    /\ right' = it.right
    /\ lstart' = it.lstart
    /\ rstart' = it.rstart
    /\ step' = it.step
    /\ IF it.ret = "Continue"
       THEN pc' = "loop" /\ result' = result
       ELSE pc' = "done" /\ result' = it.ret
    /\ UNCHANGED <<a, b>>

\* Step 2 returns: exactly one side holds '~'.
HandleTilde ==
    /\ pc = "loop"
    /\ LET it == Iteration(a, b, li, ri) IN it.step = 2 /\ Iterate(it)

\* Step 3 returns: a side is exhausted.
HandleEmpty ==
    /\ pc = "loop"
    /\ LET it == Iteration(a, b, li, ri) IN it.step = 3 /\ Iterate(it)

\* Step 4 returns: exactly one side holds '-'.
HandleDash ==
    /\ pc = "loop"
    /\ LET it == Iteration(a, b, li, ri) IN it.step = 4 /\ Iterate(it)

\* Step 5 returns: exactly one side holds '^'.
HandleCaret ==
    /\ pc = "loop"
    /\ LET it == Iteration(a, b, li, ri) IN it.step = 5 /\ Iterate(it)

\* Step 6 returns: exactly one side holds '.'.
HandleDot ==
    /\ pc = "loop"
    /\ LET it == Iteration(a, b, li, ri) IN it.step = 6 /\ Iterate(it)

\* Step 7: a side holds a digit; returns on unequal runs, else falls through.
HandleNumericalPrefix ==
    /\ pc = "loop"
    /\ LET it == Iteration(a, b, li, ri) IN it.step = 7 /\ Iterate(it)

\* Step 8: no side holds a digit; returns on unequal runs, else falls through.
HandleAlphabeticalPrefix ==
    /\ pc = "loop"
    /\ LET it == Iteration(a, b, li, ri) IN it.step = 8 /\ Iterate(it)

Next ==
    \/ HandleTilde
    \/ HandleEmpty
    \/ HandleDash
    \/ HandleCaret
    \/ HandleDot
    \/ HandleNumericalPrefix
    \/ HandleAlphabeticalPrefix

Spec == Init /\ [][Next]_vars

(***************************************************************************)
(* Helpers of the properties                                               *)
(***************************************************************************)

Min(m, n) == IF m < n THEN m ELSE n

\* Ordering::reverse
Mirror(o) == IF o = "Less" THEN "Greater" ELSE IF o = "Greater" THEN "Less" ELSE o

IsPrefixOf(s, t) == Len(s) <= Len(t) /\ SubSeq(t, 1, Len(s)) = s

\* s and t agree on their first k characters
SharePrefix(s, t, k) ==
    k <= Len(s) /\ k <= Len(t) /\ SubSeq(s, 1, k) = SubSeq(t, 1, k)

\* the character of s after its first k, None at the end
CharAfter(s, k) == IF k < Len(s) THEN s[k + 1] ELSE None

IsInvalid(c) == c # None /\ ~is_valid_version_char(c)

RECURSIVE DeleteInvalid(_)
\* s without its invalid characters
DeleteInvalid(s) ==
    IF s = <<>> THEN <<>>
    ELSE IF IsInvalid(Head(s)) THEN DeleteInvalid(Tail(s))
    ELSE <<Head(s)>> \o DeleteInvalid(Tail(s))

RECURSIVE TrimLeft(_)
TrimLeft(s) ==
    IF s # <<>> /\ IsInvalid(Head(s)) THEN TrimLeft(Tail(s)) ELSE s

RECURSIVE TrimRight(_)
TrimRight(s) ==
    IF s # <<>> /\ IsInvalid(s[Len(s)]) THEN TrimRight(SubSeq(s, 1, Len(s) - 1))
    ELSE s

\* s without its leading and its trailing invalid characters
Trim(s) == TrimRight(TrimLeft(s))

Done == pc = "done"

(***************************************************************************)
(* C2: antisymmetry and reflexivity                                        *)
(***************************************************************************)

\* C2: strverscmp(b, a) is the mirror of strverscmp(a, b), and
\* strverscmp(a, a) = Equal for every a, the empty string included.
C2_Antisymmetric ==
    Done => /\ strverscmp(b, a) = Mirror(result)
            /\ strverscmp(a, a) = "Equal"
            /\ strverscmp(b, b) = "Equal"

\* a comparison that came out Less and whose mirror is Greater, with the
\* empty string on one side
C2_Witness ==
    /\ Done
    /\ result = "Less"
    /\ a = <<>>
    /\ b # <<>>
    /\ strverscmp(b, a) = "Greater"

(***************************************************************************)
(* C7: numeric runs compare as integers                                    *)
(***************************************************************************)

IsDigits(s) == s # <<>> /\ \A i \in 1..Len(s) : is_ascii_digit(s[i])

DigitValue(c) == CharRank[c] - CharRank["0"]

RECURSIVE Value(_)
\* the integer a digit string denotes
Value(s) ==
    IF s = <<>> THEN 0
    ELSE 10 * Value(SubSeq(s, 1, Len(s) - 1)) + DigitValue(s[Len(s)])

RECURSIVE Components(_, _)
\* the parts of s between its '.', cur the part being read
Components(s, cur) ==
    IF s = <<>> THEN <<cur>>
    ELSE IF Head(s) = "." THEN <<cur>> \o Components(Tail(s), <<>>)
    ELSE Components(Tail(s), Append(cur, Head(s)))

\* s is digit runs joined by single '.'
IsDotted(s) ==
    LET cs == Components(s, <<>>) IN \A i \in 1..Len(cs) : IsDigits(cs[i])

Values(s) ==
    LET cs == Components(s, <<>>) IN [i \in 1..Len(cs) |-> Value(cs[i])]

RECURSIVE CmpValues(_, _)
\* component by component, the first difference decides; a proper prefix
\* is Less
CmpValues(u, v) ==
    IF u = <<>> /\ v = <<>> THEN "Equal"
    ELSE IF u = <<>> THEN "Less"
    ELSE IF v = <<>> THEN "Greater"
    ELSE IF Head(u) # Head(v) THEN CmpNat(Head(u), Head(v))
    ELSE CmpValues(Tail(u), Tail(v))

C4_FullyTransparent ==
    Done => /\ strverscmp(DeleteInvalid(a), b) = result
            /\ strverscmp(a, DeleteInvalid(b)) = result

\* C4, amended: deleting the leading and the trailing invalid characters of
\* either input leaves the result of strverscmp(a, b) unchanged.
C4_EdgesTransparent ==
    Done => /\ strverscmp(Trim(a), b) = result
            /\ strverscmp(a, Trim(b)) = result
            /\ strverscmp(Trim(a), Trim(b)) = result

\* an input with an invalid character at both ends around a valid one,
\* compared unequal to the other input
C4_Witness ==
    /\ Done
    /\ Len(a) = 3
    /\ IsInvalid(a[1])
    /\ ~IsInvalid(a[2])
    /\ IsInvalid(a[3])
    /\ Trim(b) = b
    /\ result = "Greater"
    /\ strverscmp(Trim(a), b) = "Greater"

(***************************************************************************)
(* C10: termination                                                        *)
(***************************************************************************)

\* One iteration either returns an Ordering or takes at least one character
\* from an iterator, and returns Equal at step 3 when both were exhausted.
C10_Progress ==
    pc = "loop" =>
        /\ \/ pc' = "done" /\ result' \in Ordering
           \/ pc' = "loop" /\ li' + ri' > li + ri
        /\ (li = Len(a) /\ ri = Len(b)) =>
              (pc' = "done" /\ result' = "Equal" /\ step' = 3)

\* The comparison has returned an Ordering, or its next iteration can run
\* and the characters taken so far are characters of the inputs.
C10_NeverStuck ==
    /\ li <= Len(a)
    /\ ri <= Len(b)
    /\ \/ pc = "done" /\ result \in Ordering
       \/ pc = "loop" /\ Iteration(a, b, li, ri).step \in 2..8

\* C10: strverscmp terminates with Less, Equal or Greater on every pair of
\* strings: every iteration returns or consumes a character (of which there
\* are finitely many), an iteration that starts with both iterators
\* exhausted returns Equal at step 3, and no iteration is ever stuck.
C10_Terminates ==
    /\ [][C10_Progress]_vars
    /\ []C10_NeverStuck

\* a string of invalid characters only against the empty string: Equal at
\* step 3
C10_Witness ==
    /\ Done
    /\ a # <<>>
    /\ DeleteInvalid(a) = <<>>
    /\ b = <<>>
    /\ step = 3
    /\ result = "Equal"

(***************************************************************************)
(* C1: transitivity                                                        *)
(***************************************************************************)

LessOrEqual(o) == o \in {"Less", "Equal"}

\* C1: for all strings x, y, z, if strverscmp(x, y) and strverscmp(y, z)
\* are Less or Equal then strverscmp(x, z) is Less or Equal, and Equal only
\* if both are Equal (here x = a, y = b, and z any input).
C1_Transitive ==
    (Done /\ LessOrEqual(result)) =>
        \A z \in Inputs :
            LET yz == strverscmp(b, z)
                xz == strverscmp(a, z)
            IN  LessOrEqual(yz) =>
                    /\ LessOrEqual(xz)
                    /\ (xz = "Equal") => (result = "Equal" /\ yz = "Equal")

(***************************************************************************)
(* C3: equality of Version values                                          *)
(***************************************************************************)

\* C3: two Version values are equal with == if and only if strverscmp
\* returns Equal on their stored strings.
C3_EqIffCmpEqual ==
    Done => /\ result = Version_cmp(a, b)
            /\ Version_eq(a, b) <=> (result = "Equal")

(***************************************************************************)
(* C5: the pre-release marker                                              *)
(***************************************************************************)

\* C5: when both inputs share a prefix s and exactly one side continues
\* with '~', that side is Less, whether the other side ends there or
\* continues with another valid character.
C5_TildeFirst ==
    Done =>
        \A k \in 0..Min(Len(a), Len(b)) :
            SharePrefix(a, b, k) =>
                LET ca == CharAfter(a, k)
                    cb == CharAfter(b, k)
                IN  /\ (ca = "~" /\ cb # "~" /\ ~IsInvalid(cb)) => result = "Less"
                    /\ (cb = "~" /\ ca # "~" /\ ~IsInvalid(ca)) => result = "Greater"

(***************************************************************************)
(* C6: extra content against the end of input                              *)
(***************************************************************************)

Separators == {"-", "^", "."}

\* C6: for every s and every t that begins with '-', '^' or '.',
\* strverscmp(s + t, s) = Greater and strverscmp(s, s + t) = Less.
C6_ExtraContentGreater ==
    Done =>
        /\ (IsPrefixOf(b, a) /\ CharAfter(a, Len(b)) \in Separators)
              => result = "Greater"
        /\ (IsPrefixOf(a, b) /\ CharAfter(b, Len(a)) \in Separators)
              => result = "Less"

(***************************************************************************)
(* C8: separator precedence                                                *)
(***************************************************************************)

\* '-' before '^' before '.' before a letter; 0 for any other character
Precedence(c) ==
    IF c = "-" THEN 1
    ELSE IF c = "^" THEN 2
    ELSE IF c = "." THEN 3
    ELSE IF c # None /\ is_ascii_alphabetic(c) THEN 4
    ELSE 0

\* C8: when the inputs share a prefix s and one continues with a separator
\* m and the other with a separator of lower priority or with a letter, the
\* input holding m is Less.
C8_SeparatorPrecedence ==
    Done =>
        \A k \in 0..Min(Len(a), Len(b)) :
            SharePrefix(a, b, k) =>
                LET pa == Precedence(CharAfter(a, k))
                    pb == Precedence(CharAfter(b, k))
                IN  /\ (pa \in 1..3 /\ pb > pa) => result = "Less"
                    /\ (pb \in 1..3 /\ pa > pb) => result = "Greater"

(***************************************************************************)
(* C9: the iterators after a run was captured                              *)
(***************************************************************************)

RECURSIVE EndOfRun(_, _, _)
\* the number of characters of s before the first one, from index p on,
\* that is not of class cls
EndOfRun(s, p, cls) ==
    IF p <= Len(s) /\ s[p] \in cls THEN EndOfRun(s, p + 1, cls) ELSE p - 1

DigitChars == {c \in DOMAIN CharRank : is_ascii_digit(c)}

AlphaChars == {c \in DOMAIN CharRank : is_ascii_alphabetic(c)}

\* Where the iterator of s has to stand after step st when steps 2..8 found
\* it at p, their current character being s[p]: past the leading zeros and
\* the digit run (step 7), past the letter run or the separator both sides
\* hold (step 8), and not past any other character.
CursorAfterRun(s, p, st) ==
    IF st = 7 THEN EndOfRun(s, EndOfRun(s, p, {"0"}) + 1, DigitChars)
    ELSE IF s[p] \in AlphaChars THEN EndOfRun(s, p, AlphaChars)
    ELSE p

\* C9: whenever step 7 or step 8 finishes without returning, each iterator
\* stands at the first character that is not part of that side's stripped
\* leading zeros and captured run.
C9_CursorAfterRun ==
    (pc = "loop" /\ step \in {7, 8}) =>
        /\ li = CursorAfterRun(a, lstart, step)
        /\ ri = CursorAfterRun(b, rstart, step)

====
